---- MODULE Spec2Model ----
(***************************************************************************)
(* Multiparser FileMonitor: the supervisor (multiparser/monitor.py), the   *)
(* two launcher threads it creates and the per-file workers they spawn.    *)
(*                                                                         *)
(* The supervisor is modelled from monitor.py.  The launchers, the workers *)
(* and HandledThread live in multiparser/thread.py, the tail read and the  *)
(* value extraction in multiparser/parsing; they are modelled from the     *)
(* specification (sections 4.2 to 4.5, 5 and 7).                           *)
(***************************************************************************)
EXTENDS Integers, Sequences, FiniteSets, TLC

(* ---------------------------------------------------------------- bounds *)
\* Each scenario bounds how often the caller enters the monitor (__enter__)
\* and how many patterns track, tail and exclude register together.
MaxEnter      == 2   \* re-entry scenario (the most entries of any scenario)
FilesPatterns == 1
SupEnter      == 1   \* supervisor scenario
SupPatterns   == 2
PoolEnter     == 1   \* two-file scenario
PoolPatterns  == 2
FairEnter     == 1   \* shutdown scenario
FairPatterns  == 1
ConfigEnter   == 1   \* configuration scenario
ConfigPatterns == 1
ExclEnter     == 1   \* exclusion scenario
ExclPatterns  == 2
RejectEnter   == 1   \* rejection scenario
RejectPatterns == 2
OrderEnter    == 1   \* dispatch scenario
OrderPatterns == 2
TailLines     == 4   \* tail scenario: the most lines the tailed file holds
TailTruncations == 1 \* and how often it is truncated
MaxGroups     == 4   \* extraction scenario: the most capture groups
StaticEnter   == 1   \* static scenario
StaticPatterns == 1
StaticDeliveries == 2  \* the most pairs a parser returns for one read
ShareEnter    == 1   \* sharing scenario
SharePatterns == 2
LockEnter     == 1   \* callback scenario
LockPatterns  == 1
ArgsEnter     == 1   \* tail scenario of the caller
ArgsPatterns  == 2

(* ------------------------------------------------------------ vocabulary *)
Paths  == {"p1", "p2"}
NonStr == "NONSTR"                    \* a glob pattern that is not a str, e.g. 10
NonIter == "NONITER"                  \* path_glob_exprs that is neither a str nor
                                      \* a list, e.g. 10 in place of [10]
Globs  == {"star", "p1", NonStr, NonIter}
Kinds  == {"file", "log"}
Gens   == 1..MaxEnter

\* the paths a glob pattern can match
Matches(g) == IF g = "star" THEN Paths ELSE IF g = "p1" THEN {"p1"} ELSE {}

VARIABLES
    scenario,             \* what the surroundings do: the files the monitored
                          \* process writes, how often the caller enters, the
                          \* patterns it registers, the most (metadata, record)
                          \* pairs a parser returns for one read
    kwargs,               \* keyword arguments of the constructor call other
                          \* than those the variables below stand for
    manual_abort,         \* termination_trigger is not None
    lock_callbacks,       \* constructor option
    events,               \* the set of threading.Event objects that are set
    known_files,          \* list id -> paths in that list
    file_trackables,      \* sequence of full-file trackables
    log_trackables,       \* sequence of tail trackables
    excluded_patterns,    \* sequence of glob patterns
    file_monitor_thread,  \* 0 (None) or the generation of the HandledThread
    log_monitor_thread,
    threads,              \* <<gen, kind>> -> HandledThread state
    workers,              \* sequence of worker records
    locks,                \* lock id -> 0 or the worker holding it
    fs,                   \* the paths that exist on the file system
    pc,                   \* where the caller of the supervisor is
    call,                 \* the supervisor call in progress
    result,               \* outcome of the last completed supervisor call
    failure_log,          \* generation -> kinds of its threads, in the order their
                          \* exception was recorded
    tail,                 \* one tail worker and the file it tails
    extract               \* one call of the label/value extraction

vars == <<scenario, kwargs, manual_abort, lock_callbacks, events, known_files, file_trackables,
          log_trackables, excluded_patterns, file_monitor_thread,
          log_monitor_thread, threads, workers, locks, fs, pc, call, result,
          failure_log, tail, extract>>

config == <<scenario, kwargs, manual_abort, lock_callbacks>>
lists  == <<file_trackables, log_trackables, excluded_patterns>>
refs   == <<file_monitor_thread, log_monitor_thread>>
pool   == <<workers, locks>>
parsing == <<tail, extract>>

(* ------------------------------------------------- FileMonitor.__init__ *)
\* self._complete and self._abort_file_monitors: with a termination_trigger
\* both names are bound to that one object.
CompleteEvent == IF manual_abort THEN "termination_trigger" ELSE "complete"
AbortEvent    == IF manual_abort THEN "termination_trigger" ELSE "abort_file_monitors"

IsSet(e) == e \in events

\* self._file_threads_mutex
FileThreadsMutex == IF lock_callbacks THEN "mutex" ELSE "None"

\* call: the blocking call the caller is in and the threads it has joined.
\* result: how the last call that can raise ended: the exception raised (msg
\* stands for the message of an AssertionError the monitor raises, exc names
\* the HandledThread whose exception was re-raised), and whether at that
\* moment the termination signal was set and both threads had finished, and
\* whether the call logged the warning that no files were processed.
NoCall   == [op |-> "none", manual |-> FALSE, joined |-> {}]
NoResult == [op |-> "none", out |-> "none", msg |-> "", exc |-> <<0, "none">>,
             joined |-> {}, signal |-> FALSE, finished |-> FALSE,
             warned |-> FALSE]

NewThread == [st |-> "none", failed |-> FALSE]

Constructed ==
    /\ events = {}
    /\ known_files = [l \in {"known_files", "file", "log"} |-> {}]
    /\ file_trackables = <<>>
    /\ log_trackables = <<>>
    /\ excluded_patterns = <<>>
    /\ file_monitor_thread = 0
    /\ log_monitor_thread = 0
    /\ threads = [t \in Gens \X Kinds |-> NewThread]
    /\ workers = <<>>
    /\ locks = [l \in {"mutex", "file", "log"} |-> 0]
    /\ fs = {}
    /\ pc = "idle"
    /\ call = NoCall
    /\ result = NoResult
    /\ failure_log = [g \in Gens |-> <<>>]

\* read_bytes=None
NoOffset == -1

\* no file is tailed and nothing is extracted
NoTail == [file |-> <<>>, read_bytes |-> NoOffset, stale |-> FALSE, lines |-> <<>>,
           anchor |-> NoOffset, delivered |-> <<>>, truncations |-> 0]

\* n lines written after t truncations to a file that holds `from` lines
NewLines(t, from, n) == [i \in 1..n |-> <<t, from + i>>]

\* A regex result is what one match gives: the whole match when the
\* expression has no capture group (groups = 0, one item), else one item per
\* capture group.
RegexResult(groups, items) == [groups |-> groups, items |-> items]

NoExtract == [regex_result |-> RegexResult(0, <<>>), label |-> "None",
              out |-> "none", key |-> "None", value |-> "None"]

NoParsing == tail = NoTail /\ extract = NoExtract

\* Supervisor scenario: a monitor with or without an external
\* termination_trigger; one monitored file; the caller may register a
\* pattern that is not a str.
Init ==
    /\ scenario = [world |-> {"p1"}, enters |-> SupEnter,
                   patterns |-> SupPatterns, globs |-> {"star", NonStr}, deliveries |-> 1]
    /\ kwargs = {}
    /\ manual_abort \in BOOLEAN
    /\ lock_callbacks = TRUE
    /\ Constructed
    /\ NoParsing

\* Two-file scenario: a monitor with or without the callback lock and
\* without an external trigger (the default); two monitored files; the
\* caller registers a pattern that matches both.
InitPool ==
    /\ scenario = [world |-> Paths, enters |-> PoolEnter,
                   patterns |-> PoolPatterns, globs |-> {"star"}, deliveries |-> 1]
    /\ kwargs = {}
    /\ manual_abort = FALSE
    /\ lock_callbacks \in BOOLEAN
    /\ Constructed
    /\ NoParsing

\* Shutdown scenario: a monitor with the callback lock, with or without an
\* external termination_trigger; two monitored files matched by one pattern,
\* so that two workers of one launcher compete for the lock.
InitFair ==
    /\ scenario = [world |-> Paths, enters |-> FairEnter,
                   patterns |-> FairPatterns, globs |-> {"star"}, deliveries |-> 1]
    /\ kwargs = {}
    /\ manual_abort \in BOOLEAN
    /\ lock_callbacks = TRUE
    /\ Constructed
    /\ NoParsing

\* the keyword parameters of __init__
Signature ==
    {"per_thread_callback", "exception_callback", "notification_callback",
     "termination_trigger", "lock_callbacks", "interval", "log_level",
     "flatten_data"}

\* A call with a keyword argument that __init__ does not have raises
\* TypeError and leaves no monitor to call.
ConstructorRaises == ~(kwargs \subseteq Signature)

NotConstructed ==
    /\ events = {}
    /\ known_files = [l \in {"known_files", "file", "log"} |-> {}]
    /\ file_trackables = <<>>
    /\ log_trackables = <<>>
    /\ excluded_patterns = <<>>
    /\ file_monitor_thread = 0
    /\ log_monitor_thread = 0
    /\ threads = [t \in Gens \X Kinds |-> NewThread]
    /\ workers = <<>>
    /\ locks = [l \in {"mutex", "file", "log"} |-> 0]
    /\ fs = {}
    /\ pc = "unconstructed"
    /\ call = NoCall
    /\ result = [NoResult EXCEPT !.op = "__init__", !.out = "TypeError"]
    /\ failure_log = [g \in Gens |-> <<>>]

\* Configuration scenario: the caller constructs the monitor with or without
\* the keyword arguments timeout and terminate_all_on_fail, and registers
\* patterns of every shape, with or without a custom parser; the scenario
\* ends before run(), and no file is written.
InitConfig ==
    /\ scenario = [world |-> {}, enters |-> ConfigEnter,
                   patterns |-> ConfigPatterns,
                   globs |-> {"star", NonStr, NonIter},
                   deliveries |-> 1]
    /\ kwargs \in SUBSET {"timeout", "terminate_all_on_fail"}
    /\ manual_abort = FALSE
    /\ lock_callbacks = TRUE
    /\ IF ConstructorRaises THEN NotConstructed ELSE Constructed
    /\ NoParsing

\* Exclusion scenario: one monitored file; the caller registers the pattern
\* that matches every file or the one that matches only this file, to track,
\* tail or exclude, in any order and at any time.
InitExcl ==
    /\ scenario = [world |-> {"p1"}, enters |-> ExclEnter,
                   patterns |-> ExclPatterns, globs |-> {"star", "p1"}, deliveries |-> 1]
    /\ kwargs = {}
    /\ manual_abort = FALSE
    /\ lock_callbacks = TRUE
    /\ Constructed
    /\ NoParsing

\* Rejection scenario: the caller registers patterns of every shape, before
\* or after run(); no file is written, and the scenario ends when the
\* launchers have started.
InitReject ==
    /\ scenario = [world |-> {}, enters |-> RejectEnter,
                   patterns |-> RejectPatterns,
                   globs |-> {"star", NonStr, NonIter}, deliveries |-> 1]
    /\ kwargs = {}
    /\ manual_abort = FALSE
    /\ lock_callbacks = TRUE
    /\ Constructed
    /\ NoParsing

\* no monitor session: the parsing functions are called on their own
NoSession ==
    /\ scenario = [world |-> {}, enters |-> 0, patterns |-> 0, globs |-> {},
                   deliveries |-> 1]
    /\ kwargs = {}
    /\ manual_abort = FALSE
    /\ lock_callbacks = TRUE
    /\ Constructed

\* Dispatch scenario: one monitored file that both patterns match; the
\* caller registers them to track or to tail, one by one or as a list, in
\* either order.
InitOrder ==
    /\ scenario = [world |-> {"p1"}, enters |-> OrderEnter,
                   patterns |-> OrderPatterns, globs |-> {"star", "p1"},
                   deliveries |-> 1]
    /\ kwargs = {}
    /\ manual_abort = FALSE
    /\ lock_callbacks = TRUE
    /\ Constructed
    /\ NoParsing

\* Sharing scenario: two monitored files; the caller enters, registers
\* patterns to track, tail or exclude, and then calls run().
InitShare ==
    /\ scenario = [world |-> Paths, enters |-> ShareEnter,
                   patterns |-> SharePatterns, globs |-> {"star", "p1"},
                   deliveries |-> 1]
    /\ kwargs = {}
    /\ manual_abort = FALSE
    /\ lock_callbacks = TRUE
    /\ Constructed
    /\ NoParsing

\* Callback scenario: a monitor with the callback lock; two monitored files
\* matched by one pattern, whose workers call a per-thread callback that
\* may raise.
InitLock ==
    /\ scenario = [world |-> Paths, enters |-> LockEnter,
                   patterns |-> LockPatterns, globs |-> {"star"},
                   deliveries |-> 1]
    /\ kwargs = {}
    /\ manual_abort = FALSE
    /\ lock_callbacks = TRUE
    /\ Constructed
    /\ NoParsing

\* Tail-arguments scenario: the caller registers patterns to tail, one call
\* after the other, with or without a custom parser, tracked values and
\* labels; no file is written.
InitArgs ==
    /\ scenario = [world |-> {}, enters |-> ArgsEnter,
                   patterns |-> ArgsPatterns, globs |-> {"star", "p1", NonStr},
                   deliveries |-> 1]
    /\ kwargs = {}
    /\ manual_abort = FALSE
    /\ lock_callbacks = TRUE
    /\ Constructed
    /\ NoParsing

\* Static scenario: two monitored files; the caller tracks the pattern that
\* matches both, static or not; the parser returns one pair or a sequence of
\* pairs.
InitStatic ==
    /\ scenario = [world |-> Paths, enters |-> StaticEnter,
                   patterns |-> StaticPatterns, globs |-> {"star"},
                   deliveries |-> StaticDeliveries]
    /\ kwargs = {}
    /\ manual_abort = FALSE
    /\ lock_callbacks = TRUE
    /\ Constructed
    /\ NoParsing

\* Re-entry scenario: a monitor with or without an external
\* termination_trigger, entered again after use; one monitored file that
\* may disappear and reappear.
InitFiles ==
    /\ scenario = [world |-> {"p1"}, enters |-> MaxEnter,
                   patterns |-> FilesPatterns, globs |-> {"star"}, deliveries |-> 1]
    /\ kwargs = {}
    /\ manual_abort \in BOOLEAN
    /\ lock_callbacks = TRUE
    /\ Constructed
    /\ NoParsing

Done(op, out) == [NoResult EXCEPT !.op = op, !.out = out]

\* raise AssertionError(msg)
Refused(op, msg) == [Done(op, "AssertionError") EXCEPT !.msg = msg]

\* the messages
ContextManager  == "FileMonitor must be used as a context manager."
GlobType        == "Globular expression must be of type AnyStr"
ParserFailed    == "Custom parser testing failed with exception"
ParserTwo       == "Parser function must return two objects"
ParserDecorated == "Parser function must be decorated"
BothValues      == "Cannot specify both tracked values and custom parser"
BothLabels      == "Cannot specify both labels and custom parser"
LabelNumber     == "Number of labels must match number of regular expressions"

(* ------------------------------------------ FileMonitor.__enter__/__exit__ *)
\* _create_monitor_threads: two new HandledThread objects, not started.
CreateMonitorThreads(g) ==
    /\ threads' = [threads EXCEPT ![<<g, "file">>] = [st |-> "created", failed |-> FALSE],
                                  ![<<g, "log">>]  = [st |-> "created", failed |-> FALSE]]
    /\ file_monitor_thread' = g
    /\ log_monitor_thread' = g

\* The next HandledThread pair that has not been created yet.
FreshGen(g) ==
    /\ threads[<<g, "file">>].st = "none"
    /\ \A h \in Gens : h < g => threads[<<h, "file">>].st # "none"

\* __enter__ that makes new Event objects
EnterNewEvents ==
    /\ pc = "idle"
    /\ \E g \in 1..scenario.enters : FreshGen(g) /\ CreateMonitorThreads(g)
    /\ events' = {}
    /\ UNCHANGED <<config, parsing, result, known_files, lists, pool, fs, pc, call,
                   failure_log>>

\* __enter__ that starts from an empty known-files list
EnterNewKnownFiles ==
    /\ pc = "idle"
    /\ \E g \in 1..scenario.enters : FreshGen(g) /\ CreateMonitorThreads(g)
    /\ known_files' = [l \in DOMAIN known_files |-> {}]
    /\ UNCHANGED <<config, parsing, result, events, lists, pool, fs, pc, call, failure_log>>

Enter ==
    /\ pc = "idle"
    /\ \E g \in 1..scenario.enters : FreshGen(g) /\ CreateMonitorThreads(g)
    /\ UNCHANGED <<config, parsing, result, events, known_files, lists, pool, fs, pc, call,
                   failure_log>>

Exit ==
    /\ pc = "idle"
    /\ events' = events \cup {CompleteEvent}
    /\ UNCHANGED <<config, parsing, result, known_files, lists, refs, threads, pool, fs, pc, call,
                   failure_log>>

(* --------------------------------------------- exclude / track / tail *)
\* A custom_parser argument is {} (None) or {p}, p what the function does when
\* called on the test string: whether it raises, the len() of what it returns,
\* and whether "_wrapper" is in its __name__ (the parser decorator's mark).
Parser(raises, len, marked) == [raises |-> raises, len |-> len, marked |-> marked]

Parsers ==
    {Parser(FALSE, 2, TRUE), Parser(TRUE, 2, TRUE), Parser(FALSE, 3, TRUE),
     Parser(FALSE, 2, FALSE)}

CustomParsers == {{}} \cup {{p} : p \in Parsers}

Trackable(g) == [glob_expr |-> g, static |-> FALSE, custom_parser |-> {}]

TrackableWith(g, custom_parser) ==
    [Trackable(g) EXCEPT !.custom_parser = custom_parser]

Registered == Len(file_trackables) + Len(log_trackables) + Len(excluded_patterns)

\* a check of the entry added last only
HasNonStrLast(trackables) ==
    trackables # <<>> /\ trackables[Len(trackables)].glob_expr = NonStr

\* for expression in self._file_trackables: every entry of the list is
\* checked, not only the new ones
HasNonStr(trackables) ==
    \E i \in 1..Len(trackables) : trackables[i].glob_expr = NonStr

\* a registration that puts the new entry in front of the list
ExtendedInFront(list, new) == <<new>> \o list

\* list.append(new), list += [new]: the list object itself grows at its end
Extended(list, new) == Append(list, new)

\* exclude: a str is appended, anything else is added with +=, which raises
\* TypeError on what cannot be iterated; then every excluded pattern is
\* expanded and glob.glob raises TypeError on one that is not a str.
Exclude(g) ==
    /\ pc = "idle"
    /\ g \in scenario.globs
    /\ Registered < scenario.patterns
    /\ IF g = NonIter
       THEN /\ result' = Done("exclude", "TypeError")
            /\ UNCHANGED excluded_patterns
       ELSE /\ excluded_patterns' = Extended(excluded_patterns, g)
            /\ result' = Done("exclude",
                              IF \E i \in 1..Len(excluded_patterns') :
                                    excluded_patterns'[i] = NonStr
                              THEN "TypeError" ELSE "ok")
    /\ UNCHANGED <<config, parsing, events, known_files, file_trackables, log_trackables,
                   refs, threads, pool, fs, pc, call, failure_log>>

\* track: a str makes one trackable, anything else is iterated (TypeError on
\* what cannot be) and makes one trackable per element; then every
\* registered full-file trackable is checked (a str pattern is given as
\* such, NonStr as [10], NonIter as 10).  custom_parser and static are stored
\* as given.
TrackAs(g, custom_parser, static) ==
    /\ pc = "idle"
    /\ g \in scenario.globs
    /\ Registered < scenario.patterns
    /\ IF g = NonIter
       THEN /\ result' = Done("track", "TypeError")
            /\ UNCHANGED file_trackables
       ELSE /\ file_trackables' =
                   Extended(file_trackables,
                            [TrackableWith(g, custom_parser) EXCEPT !.static = static])
            /\ result' = IF HasNonStr(file_trackables')
                         THEN Refused("track", GlobType) ELSE Done("track", "ok")
    /\ UNCHANGED <<config, parsing, events, known_files, log_trackables, excluded_patterns,
                   refs, threads, pool, fs, pc, call, failure_log>>

\* a comprehension that yields the trackables in reverse
NewTrackablesReversed(gs, custom_parser, static) ==
    [i \in 1..Len(gs) |->
        [TrackableWith(gs[Len(gs) + 1 - i], custom_parser) EXCEPT !.static = static]]

\* [{"glob_expr": g, ...} for g in path_glob_exprs]
NewTrackables(gs, custom_parser, static) ==
    [i \in 1..Len(gs) |->
        [TrackableWith(gs[i], custom_parser) EXCEPT !.static = static]]

\* the lists of two patterns a caller passes
GlobLists == {<<a, b>> : a, b \in Globs \ {NonIter}}

\* track with a list of patterns: one trackable per pattern is added, in the
\* order of the list, then every registered full-file trackable is checked.
TrackAll(gs) ==
    /\ pc = "idle"
    /\ \A i \in 1..Len(gs) : gs[i] \in scenario.globs
    /\ Registered + Len(gs) <= scenario.patterns
    /\ file_trackables' = file_trackables \o NewTrackables(gs, {}, FALSE)
    /\ result' = IF HasNonStr(file_trackables')
                 THEN Refused("track", GlobType) ELSE Done("track", "ok")
    /\ UNCHANGED <<config, parsing, events, known_files, log_trackables, excluded_patterns,
                   refs, threads, pool, fs, pc, call, failure_log>>

\* track with static left at its default
TrackWith(g, custom_parser) == TrackAs(g, custom_parser, FALSE)

\* track without a custom parser
Track(g) == TrackWith(g, {})

\* a check that does not look for the decorator's mark
CheckCustomLogParserAnyName(parser) ==
    IF parser.raises THEN ParserFailed
    ELSE IF parser.len # 2 THEN ParserTwo
    ELSE "ok"

\* _check_custom_log_parser: the parser is called on a test string; "ok" or
\* the message of the AssertionError
CheckCustomLogParser(parser) ==
    IF parser.raises THEN ParserFailed
    ELSE IF parser.len # 2 THEN ParserTwo
    ELSE IF ~parser.marked THEN ParserDecorated
    ELSE "ok"

ParserCheck(custom_parser) ==
    IF custom_parser = {} THEN "ok"
    ELSE CheckCustomLogParser(CHOOSE p \in custom_parser : TRUE)

\* tail that accepts tracked values and labels next to a custom parser
TailArgumentsAnyMix(custom_parser, tracked_values, labels) ==
    IF ParserCheck(custom_parser) # "ok" THEN ParserCheck(custom_parser)
    ELSE IF labels > 0 /\ labels # tracked_values THEN LabelNumber
    ELSE "ok"

\* tail up to the registration: the custom parser is checked, then refused
\* together with tracked values or labels; the number of labels must be
\* that of the tracked values (both given as their number here); "ok" or
\* the message of the AssertionError.
TailArguments(custom_parser, tracked_values, labels) ==
    IF ParserCheck(custom_parser) # "ok" THEN ParserCheck(custom_parser)
    ELSE IF custom_parser # {} /\ tracked_values > 0 THEN BothValues
    ELSE IF custom_parser # {} /\ labels > 0 THEN BothLabels
    ELSE IF labels > 0 /\ labels # tracked_values THEN LabelNumber
    ELSE "ok"

\* a tail that registers the trackable first and checks its arguments after
TailWithRegistersFirst(g, custom_parser, tracked_values, labels) ==
    /\ pc = "idle"
    /\ g \in scenario.globs
    /\ Registered < scenario.patterns
    /\ IF g = NonIter
       THEN /\ result' = Done("tail", "TypeError")
            /\ UNCHANGED log_trackables
       ELSE /\ log_trackables' =
                   Append(log_trackables, TrackableWith(g, custom_parser))
            /\ result' =
                   IF TailArguments(custom_parser, tracked_values, labels) # "ok"
                   THEN Refused("tail",
                                TailArguments(custom_parser, tracked_values, labels))
                   ELSE IF HasNonStr(log_trackables')
                   THEN Refused("tail", GlobType) ELSE Done("tail", "ok")
    /\ UNCHANGED <<config, parsing, events, known_files, file_trackables, excluded_patterns,
                   refs, threads, pool, fs, pc, call, failure_log>>

\* tail: after the checks of its arguments as track, for the tail trackables.
TailWith(g, custom_parser, tracked_values, labels) ==
    /\ pc = "idle"
    /\ g \in scenario.globs
    /\ Registered < scenario.patterns
    /\ IF TailArguments(custom_parser, tracked_values, labels) # "ok"
       THEN /\ result' = Refused("tail",
                                 TailArguments(custom_parser, tracked_values, labels))
            /\ UNCHANGED log_trackables
       ELSE IF g = NonIter
       THEN /\ result' = Done("tail", "TypeError")
            /\ UNCHANGED log_trackables
       ELSE /\ log_trackables' =
                   Append(log_trackables, TrackableWith(g, custom_parser))
            /\ result' = IF HasNonStr(log_trackables')
                         THEN Refused("tail", GlobType) ELSE Done("tail", "ok")
    /\ UNCHANGED <<config, parsing, events, known_files, file_trackables, excluded_patterns,
                   refs, threads, pool, fs, pc, call, failure_log>>

\* tail with a list of patterns and nothing else: as track with a list, for
\* the tail trackables.
TailAll(gs) ==
    /\ pc = "idle"
    /\ \A i \in 1..Len(gs) : gs[i] \in scenario.globs
    /\ Registered + Len(gs) <= scenario.patterns
    /\ log_trackables' = log_trackables \o NewTrackables(gs, {}, FALSE)
    /\ result' = IF HasNonStr(log_trackables')
                 THEN Refused("tail", GlobType) ELSE Done("tail", "ok")
    /\ UNCHANGED <<config, parsing, events, known_files, file_trackables, excluded_patterns,
                   refs, threads, pool, fs, pc, call, failure_log>>

\* tail without custom parser, tracked values or labels.
TailCall(g) == TailWith(g, {}, 0, 0)

(* ------------------------------------------------------ run / terminate *)
CurrentThread(k) == IF k = "file" THEN file_monitor_thread ELSE log_monitor_thread

NotEntered == file_monitor_thread = 0 \/ log_monitor_thread = 0

ThreadOf(k) == threads[<<CurrentThread(k), k>>]

\* Thread.start() on both HandledThreads.
StartThreads ==
    threads' = [threads EXCEPT ![<<file_monitor_thread, "file">>].st = "started",
                               ![<<log_monitor_thread, "log">>].st = "started"]

\* run on a monitor that was never entered: AttributeError is what a missing
\* check would give (None has no start).
RunNotEnteredUnchecked ==
    /\ result' = Done("run", "AttributeError")
    /\ UNCHANGED <<events, threads, pc, call>>

\* run on a monitor that was never entered
RunNotEntered ==
    /\ result' = Refused("run", ContextManager)
    /\ UNCHANGED <<events, threads, pc, call>>

\* terminate that forgets self._abort_file_monitors.set()
TerminateEventsNoAbort(manual) == IF manual THEN events \cup {CompleteEvent} ELSE events

\* terminate that sets the events whatever __manual_abort is
TerminateEventsAlways(manual) == events \cup {AbortEvent, CompleteEvent}

\* if __manual_abort: both events are set
TerminateEvents(manual) ==
    IF manual THEN events \cup {AbortEvent, CompleteEvent} ELSE events

\* run that returns once the threads are started, whatever the trigger
RunEnteredNoWait ==
    IF ThreadOf("file").st # "created"
    THEN /\ result' = Done("run", "RuntimeError")
         /\ UNCHANGED <<events, threads, pc, call>>
    ELSE /\ StartThreads
         /\ result' = Done("run", "ok")
         /\ UNCHANGED <<events, pc, call>>

\* run on an entered monitor: Thread.start() raises RuntimeError on a thread
\* that was started before; with an external trigger run goes on to
\* terminate(False).
RunEntered ==
    IF ThreadOf("file").st # "created"
    THEN /\ result' = Done("run", "RuntimeError")
         /\ UNCHANGED <<events, threads, pc, call>>
    ELSE /\ StartThreads
         /\ IF manual_abort
            THEN /\ events' = TerminateEvents(FALSE)
                 /\ pc' = "join_file"
                 /\ call' = [op |-> "run", manual |-> FALSE, joined |-> {}]
                 /\ UNCHANGED result
            ELSE /\ result' = Done("run", "ok")
                 /\ UNCHANGED <<events, pc, call>>

Run ==
    /\ pc = "idle"
    /\ IF NotEntered THEN RunNotEntered ELSE RunEntered
    /\ UNCHANGED <<config, parsing, known_files, lists, refs, pool, fs, failure_log>>

\* a terminate() that looks at the threads before it sets the events
TerminateChecksFirst ==
    /\ pc = "idle"
    /\ IF NotEntered
       THEN /\ result' = Refused("terminate", ContextManager)
            /\ UNCHANGED <<events, pc, call>>
       ELSE /\ events' = TerminateEvents(TRUE)
            /\ pc' = "join_file"
            /\ call' = [op |-> "terminate", manual |-> TRUE, joined |-> {}]
            /\ UNCHANGED result
    /\ UNCHANGED <<config, parsing, known_files, lists, refs, threads, pool, fs, failure_log>>

\* terminate() up to its first join: the events are set first, then the
\* threads are looked at
Terminate ==
    /\ pc = "idle"
    /\ events' = TerminateEvents(TRUE)
    /\ IF NotEntered
       THEN /\ result' = Refused("terminate", ContextManager)
            /\ UNCHANGED <<pc, call>>
       ELSE /\ pc' = "join_file"
            /\ call' = [op |-> "terminate", manual |-> TRUE, joined |-> {}]
            /\ UNCHANGED result
    /\ UNCHANGED <<config, parsing, known_files, lists, refs, threads, pool, fs, failure_log>>

\* Thread.join(): RuntimeError on a thread never started, else blocks until
\* the thread has finished.
JoinFile ==
    /\ pc = "join_file"
    /\ ThreadOf("file").st \in {"created", "finished"}
    /\ IF ThreadOf("file").st = "created"
       THEN /\ result' = Done(call.op, "RuntimeError")
            /\ pc' = "idle"
            /\ call' = NoCall
       ELSE /\ pc' = "join_log"
            /\ call' = [call EXCEPT !.joined = @ \cup {"file"}]
            /\ UNCHANGED result
    /\ UNCHANGED <<config, parsing, events, known_files, lists, refs, threads, pool, fs,
                   failure_log>>

\* _exception := file thread's exception or log thread's exception
RaisedException ==
    IF ThreadOf("file").failed THEN <<file_monitor_thread, "file">>
    ELSE IF ThreadOf("log").failed THEN <<log_monitor_thread, "log">>
    ELSE <<0, "none">>

\* a terminate that logs the warning only when it is not going to raise
NoFilesWarningIfClean == known_files["known_files"] = {} /\ RaisedException[1] = 0

\* if not self._known_files: the warning is logged
NoFilesWarning == known_files["known_files"] = {}

\* a terminate that takes the exception out of the thread it re-raises it from
JoinLogDrains ==
    /\ pc = "join_log"
    /\ ThreadOf("log").st \in {"created", "finished"}
    /\ IF ThreadOf("log").st = "created"
       THEN result' = Done(call.op, "RuntimeError")
       ELSE result' = [op |-> call.op,
                       msg |-> "",
                       out |-> IF RaisedException[1] = 0 THEN "ok" ELSE "raised",
                       exc |-> RaisedException,
                       joined |-> call.joined \cup {"log"},
                       signal |-> IsSet(AbortEvent),
                       finished |-> \A k \in Kinds : ThreadOf(k).st = "finished",
                       warned |-> NoFilesWarning]
    /\ threads' = IF RaisedException[1] = 0 THEN threads
                  ELSE [threads EXCEPT ![RaisedException].failed = FALSE]
    /\ pc' = "idle"
    /\ call' = NoCall
    /\ UNCHANGED <<config, parsing, events, known_files, lists, refs, pool, fs,
                   failure_log>>

\* the second join and the rest of terminate
JoinLog ==
    /\ pc = "join_log"
    /\ ThreadOf("log").st \in {"created", "finished"}
    /\ IF ThreadOf("log").st = "created"
       THEN result' = Done(call.op, "RuntimeError")
       ELSE result' = [op |-> call.op,
                       msg |-> "",
                       out |-> IF RaisedException[1] = 0 THEN "ok" ELSE "raised",
                       exc |-> RaisedException,
                       joined |-> call.joined \cup {"log"},
                       signal |-> IsSet(AbortEvent),
                       finished |-> \A k \in Kinds : ThreadOf(k).st = "finished",
                       warned |-> NoFilesWarning]
    /\ pc' = "idle"
    /\ call' = NoCall
    /\ UNCHANGED <<config, parsing, events, known_files, lists, refs, threads, pool, fs,
                   failure_log>>

\* The owner of an external termination_trigger sets it.
TriggerSet ==
    /\ manual_abort
    /\ ~IsSet("termination_trigger")
    /\ events' = events \cup {"termination_trigger"}
    /\ UNCHANGED <<config, parsing, known_files, lists, refs, threads, pool, fs, pc, call,
                   result, failure_log>>

(* ------------------------------------------------------- the file system *)
\* glob.glob(g) now
Glob(g) == Matches(g) \cap fs

\* Another process writes a file, creating it if need be: its modification
\* time becomes one that no worker has seen.
FileWrite(p) ==
    /\ p \in scenario.world
    /\ fs' = fs \cup {p}
    /\ workers' = [w \in 1..Len(workers) |->
                     IF workers[w].path = p
                     THEN [workers[w] EXCEPT !.stale = TRUE] ELSE workers[w]]
    /\ \/ p \notin fs
       \/ workers' # workers
    /\ UNCHANGED <<config, parsing, events, known_files, lists, refs, threads, locks, pc,
                   call, result, failure_log>>

\* Another process removes a file.
FileRemove(p) ==
    /\ p \in fs
    /\ fs' = fs \ {p}
    /\ UNCHANGED <<config, parsing, events, known_files, lists, refs, threads, pool, pc,
                   call, result, failure_log>>

(* ------------------------------------------- launchers (multiparser.thread) *)
\* each launcher given a new list in place of the monitor's
TrackablesCopied(k) == <<>>

\* args=(self._file_trackables, ...) and args=(self._log_trackables, ...):
\* the list object each launcher is given
Trackables(k) == IF k = "file" THEN file_trackables ELSE log_trackables

\* each launcher given a list of its own
FileListPerLauncher(k) == k

\* file_list=... : the list object each launcher is given
FileList(k) == "known_files"

\* each launcher given a lock of its own
FileThreadLockPerLauncher(k) == IF lock_callbacks THEN k ELSE "None"

\* file_thread_lock=... : the lock object each launcher is given
FileThreadLock(k) == FileThreadsMutex

\* each launcher given an empty list of patterns to exclude
ExcludeFilesGlobexEmpty(k) == <<>>

\* exclude_files_globex=... : the list object each launcher is given
ExcludeFilesGlobex(k) == excluded_patterns

ExcludedPaths(k) ==
    UNION {Glob(ExcludeFilesGlobex(k)[i]) : i \in 1..Len(ExcludeFilesGlobex(k))}

ExcludedNonStr(k) ==
    \E i \in 1..Len(ExcludeFilesGlobex(k)) : ExcludeFilesGlobex(k)[i] = NonStr

\* index of the first trackable whose pattern cannot be expanded
FirstNonStr(k) ==
    LET bad == {i \in 1..Len(Trackables(k)) : Trackables(k)[i].glob_expr = NonStr}
    IN  IF bad = {} THEN Len(Trackables(k)) + 1
        ELSE CHOOSE i \in bad : \A j \in bad : i <= j

\* paths of trackable i that are neither excluded nor known
Candidates(k, i) ==
    (Glob(Trackables(k)[i].glob_expr) \ ExcludedPaths(k)) \ known_files[FileList(k)]

NewWorker(g, k, p, i) ==
    [g |-> g, k |-> k, path |-> p, trackable |-> i, st |-> "poll", stale |-> TRUE,
     pending |-> 0, failed |-> FALSE]

\* HandledThread: the target raised; the exception is kept in the thread.
ThreadRaise(g, k) ==
    /\ threads' = [threads EXCEPT ![<<g, k>>] = [st |-> "finished", failed |-> TRUE]]
    /\ failure_log' = [failure_log EXCEPT ![g] = Append(@, k)]

WorkersOf(g, k) == {w \in 1..Len(workers) : workers[w].g = g /\ workers[w].k = k}

\* One pass of the discovery loop while the termination signal is not set:
\* mark one new path known and spawn its worker (the first trackable that
\* matches it wins); expanding a pattern that is not a str raises out of
\* the loop and abort() is never reached.
LauncherLoop(g, k) ==
    /\ threads[<<g, k>>].st = "started"
    /\ ~IsSet(AbortEvent)
    /\ IF ExcludedNonStr(k)
          \/ /\ FirstNonStr(k) <= Len(Trackables(k))
             /\ \A j \in 1..(FirstNonStr(k) - 1) : Candidates(k, j) = {}
       THEN /\ ThreadRaise(g, k)
            /\ UNCHANGED <<known_files, workers>>
       ELSE /\ \E i \in 1..(FirstNonStr(k) - 1) :
                /\ Candidates(k, i) # {}
                /\ \A j \in 1..(i - 1) : Candidates(k, j) = {}
                /\ \E p \in Candidates(k, i) :
                    /\ known_files' = [known_files EXCEPT
                                         ![FileList(k)] = @ \cup {p}]
                    /\ workers' = Append(workers, NewWorker(g, k, p, i))
            /\ UNCHANGED <<threads, failure_log>>
    /\ UNCHANGED <<config, parsing, events, lists, refs, locks, fs, pc, call, result>>

\* The termination signal is set: the loop is left and abort() joins every
\* worker of this launcher, then raises if one of them failed.
LauncherAbort(g, k) ==
    /\ threads[<<g, k>>].st = "started"
    /\ IsSet(AbortEvent)
    /\ \A w \in WorkersOf(g, k) : workers[w].st = "done"
    /\ IF \E w \in WorkersOf(g, k) : workers[w].failed
       THEN ThreadRaise(g, k)
       ELSE /\ threads' = [threads EXCEPT ![<<g, k>>].st = "finished"]
            /\ UNCHANGED failure_log
    /\ UNCHANGED <<config, parsing, events, known_files, lists, refs, pool, fs, pc, call,
                   result>>

(* --------------------------------------------- workers (multiparser.thread) *)
\* the trackable a worker is bound to
Bound(w) == Trackables(workers[w].k)[workers[w].trackable]

\* Loop head: exit when the termination signal is set; if the file is
\* readable and its modification time changed, parse it (the parser, user
\* code, returns one or more (metadata, record) pairs to deliver, or raises).
WorkerPoll(w) ==
    /\ workers[w].st = "poll"
    /\ IF IsSet(AbortEvent)
       THEN workers' = [workers EXCEPT ![w].st = "done"]
       ELSE /\ workers[w].path \in fs
            /\ workers[w].stale
            /\ \/ \E n \in 1..scenario.deliveries :
                     workers' = [workers EXCEPT ![w].st = "deliver",
                                                ![w].stale = FALSE,
                                                ![w].pending = n]
               \/ workers' = [workers EXCEPT ![w].st = "done", ![w].failed = TRUE]
    /\ UNCHANGED <<config, parsing, events, known_files, lists, refs, threads, locks, fs, pc,
                   call, result, failure_log>>

\* Acquire the callback lock, if there is one, and enter the callback.
WorkerAcquire(w) ==
    /\ workers[w].st = "deliver"
    /\ LET l == FileThreadLock(workers[w].k)
       IN  IF l = "None"
           THEN UNCHANGED locks
           ELSE /\ locks[l] = 0
                /\ locks' = [locks EXCEPT ![l] = w]
    /\ workers' = [workers EXCEPT ![w].st = "callback"]
    /\ UNCHANGED <<config, parsing, events, known_files, lists, refs, threads, fs, pc, call,
                   result, failure_log>>

\* a worker that goes back to polling whatever its trackable says
AfterReadAlwaysPolls(w) == "poll"

\* after the last delivery of a read: a static trackable's worker exits
\* cleanly, any other goes back to the loop head
AfterRead(w) == IF Bound(w).static THEN "done" ELSE "poll"

\* the lock a worker holds after the callback if it were kept on a raise
LockAfterCallbackKept(w, raised) == IF raised THEN w ELSE 0

\* the callback lock is released when the callback has returned or raised
LockAfterCallback(w, raised) == 0

\* The callback returns or raises; the lock is released either way.  After
\* a return the worker goes on to its next delivery, if the read has one.
WorkerCallback(w) ==
    /\ workers[w].st = "callback"
    /\ \E raised \in BOOLEAN :
          /\ LET l == FileThreadLock(workers[w].k)
             IN  IF l = "None"
                 THEN UNCHANGED locks
                 ELSE locks' = [locks EXCEPT ![l] = LockAfterCallback(w, raised)]
          /\ workers' =
                IF raised
                THEN [workers EXCEPT ![w].st = "done", ![w].failed = TRUE,
                                     ![w].pending = 0]
                ELSE IF workers[w].pending > 1
                THEN [workers EXCEPT ![w].st = "deliver", ![w].pending = @ - 1]
                ELSE [workers EXCEPT ![w].st = AfterRead(w), ![w].pending = 0]
    /\ UNCHANGED <<config, parsing, events, known_files, lists, refs, threads, fs, pc, call,
                   result, failure_log>>

(* ------------------------------------------- tail reads (multiparser.parsing) *)
\* The tailed file is a sequence of lines; offsets count lines (the writer
\* appends whole lines).  A line is known by the number of truncations
\* before it was written and its place in the file.
monitor == <<config, events, known_files, lists, refs, threads, pool, fs, pc, call,
             result, failure_log>>

\* a read that starts at the last line delivered
UnreadFromLine(file, read_bytes) ==
    SubSeq(file, IF read_bytes = 0 THEN 1 ELSE read_bytes, Len(file))

\* seek to the last-read offset and read to the current end
Unread(file, read_bytes) == SubSeq(file, read_bytes + 1, Len(file))

\* an offset that stays where it was when the file has shrunk
RewindNot(read_bytes) == read_bytes

\* the file has shrunk: the offset is reset to zero
Rewind(read_bytes) == 0

\* the tail anchor of a file at its first poll: one line before its end
Anchor(file) == IF file = <<>> THEN 0 ELSE Len(file) - 1

\* tail_file_n_bytes(file_name, read_bytes): the new offset and the lines
\* read.  First poll: only the final line (nothing of an empty file).  A file
\* shorter than the offset: nothing is read at this poll.
TailFileNBytes(file, read_bytes) ==
    IF read_bytes = NoOffset
    THEN [bytes |-> Len(file), lines |-> Unread(file, Anchor(file))]
    ELSE IF Len(file) < read_bytes
    THEN [bytes |-> Rewind(read_bytes), lines |-> <<>>]
    ELSE [bytes |-> Len(file), lines |-> Unread(file, read_bytes)]

\* The monitored process appends n lines.
TailAppend(n) ==
    /\ tail # NoTail
    /\ Len(tail.file) + n <= TailLines
    /\ tail' = [tail EXCEPT
                  !.file = @ \o NewLines(tail.truncations, Len(tail.file), n),
                  !.stale = TRUE]
    /\ UNCHANGED <<monitor, extract>>

\* The monitored process truncates the file (a rotation is a truncation
\* followed by appends).
TailTruncate ==
    /\ tail # NoTail
    /\ tail.file # <<>>
    /\ tail.truncations < TailTruncations
    /\ tail' = [tail EXCEPT !.file = <<>>, !.truncations = @ + 1, !.stale = TRUE]
    /\ UNCHANGED <<monitor, extract>>

\* One poll of the tail worker that finds the modification time changed: it
\* reads, keeps the new offset and delivers the lines; after a poll that
\* found the file shrunk the next poll reads again.
TailRead ==
    /\ tail # NoTail
    /\ tail.stale
    /\ LET out == TailFileNBytes(tail.file, tail.read_bytes)
       IN  tail' = [tail EXCEPT
                     !.read_bytes = out.bytes,
                     !.lines = out.lines,
                     !.delivered = @ \o out.lines,
                     !.anchor = IF tail.read_bytes = NoOffset
                                THEN Anchor(tail.file) ELSE @,
                     !.stale = (tail.read_bytes # NoOffset
                                  /\ Len(tail.file) < tail.read_bytes)]
    /\ UNCHANGED <<monitor, extract>>

\* Tail scenario: a tail worker is bound to a file that holds up to two
\* lines; the file is appended to and truncated between the worker's polls.
InitTail ==
    /\ NoSession
    /\ extract = NoExtract
    /\ \E n \in 0..2 :
          tail = [NoTail EXCEPT !.file = NewLines(0, 0, n), !.stale = TRUE]

(* ------------------------------------ value extraction (multiparser.parsing) *)
\* the texts a match or a capture group can hold
Texts == {"a", "b"}

Tuples(n) == [1..n -> Texts]

RegexResults ==
    {RegexResult(0, <<t>>) : t \in Texts}
        \cup UNION {{RegexResult(n, items) : items \in Tuples(n)} : n \in 1..MaxGroups}

\* label=None or a label override
Labels == {"None", "label"}

\* a pairing in which the captured label wins over the override
LabelCaptured(items, label) == items[1]

\* two capture groups: the first is the label unless an override is given
LabelFor(items, label) == IF label # "None" THEN label ELSE items[1]

Extracted(key, value) == [out |-> "ok", key |-> key, value |-> value]

SchemaError == [out |-> "ValueError", key |-> "None", value |-> "None"]

\* _extract_label_value_pair(regex_result, label, ...)
ExtractLabelValuePair(regex_result, label) ==
    IF regex_result.groups <= 1
    THEN IF label = "None" THEN SchemaError
         ELSE Extracted(label, regex_result.items[1])
    ELSE IF regex_result.groups = 2
    THEN Extracted(LabelFor(regex_result.items, label), regex_result.items[2])
    ELSE SchemaError

\* the call
Extract ==
    /\ extract.regex_result.items # <<>>
    /\ extract.out = "none"
    /\ LET r == ExtractLabelValuePair(extract.regex_result, extract.label)
       IN  extract' = [extract EXCEPT !.out = r.out, !.key = r.key,
                                      !.value = r.value]
    /\ UNCHANGED <<monitor, tail>>

\* Extraction scenario: the extraction is called on a regex result of every
\* shape, with and without a label.
InitExtract ==
    /\ NoSession
    /\ tail = NoTail
    /\ \E r \in RegexResults, l \in Labels :
          extract = [NoExtract EXCEPT !.regex_result = r, !.label = l]

(* ------------------------------------------------------------ the system *)
\* the caller of the supervisor
CallerStep ==
    \/ Enter
    \/ Exit
    \/ \E g \in Globs : Exclude(g)
    \/ \E g \in Globs : Track(g)
    \/ \E g \in Globs : TailCall(g)
    \/ Run
    \/ Terminate
    \/ JoinFile
    \/ JoinLog

\* the launcher threads and their workers
ThreadStep ==
    \/ \E g \in Gens, k \in Kinds : LauncherLoop(g, k)
    \/ \E g \in Gens, k \in Kinds : LauncherAbort(g, k)
    \/ \E w \in 1..Len(workers) : WorkerPoll(w)
    \/ \E w \in 1..Len(workers) : WorkerAcquire(w)
    \/ \E w \in 1..Len(workers) : WorkerCallback(w)

Next ==
    \/ CallerStep
    \/ ThreadStep
    \/ TriggerSet
    \/ \E p \in Paths : FileWrite(p)

NextPool ==
    \/ CallerStep
    \/ ThreadStep
    \/ \E p \in Paths : FileWrite(p)

NextFiles ==
    \/ CallerStep
    \/ ThreadStep
    \/ TriggerSet
    \/ \E p \in Paths : FileWrite(p)
    \/ \E p \in Paths : FileRemove(p)

\* the caller setting the monitor up, before run(): it also passes custom
\* parsers, tracked values and labels
NextConfig ==
    \/ Enter
    \/ Exit
    \/ \E g \in Globs : Exclude(g)
    \/ \E g \in Globs, cp \in CustomParsers : TrackWith(g, cp)
    \/ \E g \in Globs, cp \in CustomParsers, tv \in 0..1, lab \in 0..1 :
          TailWith(g, cp, tv, lab)

\* a tail worker and the process that writes its file
NextTail ==
    \/ \E n \in 1..2 : TailAppend(n)
    \/ TailTruncate
    \/ TailRead

\* the caller registering patterns and starting the launchers
NextReject ==
    \/ Enter
    \/ \E g \in Globs : Exclude(g)
    \/ \E g \in Globs : Track(g)
    \/ \E g \in Globs : TailCall(g)
    \/ Run
    \/ \E g \in Gens, k \in Kinds : LauncherLoop(g, k)

\* the caller registering several patterns, also as lists
NextOrder ==
    \/ Enter
    \/ \E g \in Globs : Track(g)
    \/ \E g \in Globs : TailCall(g)
    \/ \E gs \in GlobLists : TrackAll(gs)
    \/ \E gs \in GlobLists : TailAll(gs)
    \/ Run
    \/ Terminate
    \/ JoinFile
    \/ JoinLog
    \/ ThreadStep
    \/ \E p \in Paths : FileWrite(p)

\* the caller tracking files that are written once
NextStatic ==
    \/ Enter
    \/ \E g \in Globs, static \in BOOLEAN : TrackAs(g, {}, static)
    \/ Run
    \/ Terminate
    \/ JoinFile
    \/ JoinLog
    \/ ThreadStep
    \/ \E p \in Paths : FileWrite(p)

\* between __enter__ and run(): the launcher threads exist and have not
\* been started
Prepared == ~NotEntered /\ ThreadOf("file").st = "created"

\* the caller registering every pattern between __enter__ and run(), and
\* the launchers at their discovery
NextShare ==
    \/ Enter
    \/ \E g \in Globs : Prepared /\ Track(g)
    \/ \E g \in Globs : Prepared /\ TailCall(g)
    \/ \E g \in Globs : Prepared /\ Exclude(g)
    \/ Run
    \/ \E g \in Gens, k \in Kinds : LauncherLoop(g, k)
    \/ \E p \in Paths : FileWrite(p)

\* the caller tracking files and terminating the session
NextLock ==
    \/ Enter
    \/ \E g \in Globs : Track(g)
    \/ Run
    \/ Terminate
    \/ JoinFile
    \/ JoinLog
    \/ ThreadStep
    \/ \E p \in Paths : FileWrite(p)

\* the caller calling tail() with every mix of arguments
NextArgs ==
    \/ Enter
    \/ \E g \in Globs, cp \in CustomParsers, tv \in 0..1, lab \in 0..1 :
          TailWith(g, cp, tv, lab)

Spec == Init /\ [][Next]_vars

SpecArgs == InitArgs /\ [][NextArgs]_vars

SpecShare == InitShare /\ [][NextShare]_vars

SpecStatic == InitStatic /\ [][NextStatic]_vars

SpecOrder == InitOrder /\ [][NextOrder]_vars

SpecReject == InitReject /\ [][NextReject]_vars

SpecTail == InitTail /\ [][NextTail]_vars

SpecExtract == InitExtract /\ [][Extract]_vars

SpecPool == InitPool /\ [][NextPool]_vars

SpecFiles == InitFiles /\ [][NextFiles]_vars

SpecConfig == InitConfig /\ [][NextConfig]_vars

SpecExcl == InitExcl /\ [][NextPool]_vars

\* Scheduling: the launchers and the workers are operating-system threads and
\* the parser and the callback return, so while some thread can take a step
\* one of them eventually does; the same holds for the caller blocked in a
\* join.  (Fairness to each thread separately would assume more.)
Fairness ==
    /\ WF_vars(ThreadStep)
    /\ WF_vars(JoinFile \/ JoinLog)

FairSpec == InitFair /\ [][Next]_vars /\ Fairness

FairLock == InitLock /\ [][NextLock]_vars /\ Fairness

(* ------------------------------------------------------------ properties *)
\* C1: run() or terminate() on a monitor that was never entered fails with
\* AssertionError, and the call starts no launcher thread.
C1_NotEnteredFails ==
    (NotEntered /\ result.op \in {"run", "terminate"})
        => /\ result.out = "AssertionError"
           /\ pc = "idle"
           /\ \A t \in Gens \X Kinds : threads[t].st = "none"

C1_Witness ==
    /\ NotEntered
    /\ result.op = "run"
    /\ result.out = "AssertionError"
    /\ file_trackables # <<>>

\* C2: on an entered and run monitor, when terminate() returns or raises a
\* launcher failure the termination signal is set and both launcher threads
\* have finished; the signal is set before the first join, and the outcome
\* is decided only after both joins.
C2_TerminateJoins ==
    /\ (call.op = "terminate" /\ pc # "idle") => IsSet(AbortEvent)
    /\ (result.op = "terminate" /\ result.out \in {"ok", "raised"})
          => /\ result.signal
             /\ result.finished
             /\ result.joined = Kinds

C2_Witness ==
    /\ result.op = "terminate"
    /\ result.out = "raised"
    /\ \E w \in 1..Len(workers) : workers[w].failed

\* C3: when both launchers recorded a failure, terminate() re-raises the one
\* that was recorded first in time.
C3_FirstRecordedRaised ==
    (result.op = "terminate" /\ result.out = "raised"
        /\ Len(failure_log[result.exc[1]]) = 2)
        => result.exc[2] = failure_log[result.exc[1]][1]

C4_RunWaits ==
    /\ (manual_abort /\ result.op = "run" /\ result.out \in {"ok", "raised"})
          => /\ result.finished
             /\ result.joined = Kinds
             /\ ~result.signal => /\ result.out = "raised"
                                  /\ Len(failure_log[result.exc[1]]) = 2
    /\ call.op = "run" => manual_abort
    /\ (~manual_abort /\ result.op = "run") => result.joined = {}

C4_RunSetsNothing ==
    (Run \/ (call.op = "run" /\ (JoinFile \/ JoinLog))) => events' = events

C5_ExitOnlyCompletes ==
    [][Exit => /\ CompleteEvent \in events'
               /\ (AbortEvent \in events') = (AbortEvent \in events)
               /\ threads' = threads
               /\ workers' = workers]_vars

\* C6: the termination and the completion signal are latches: no step of the
\* monitor, its launchers or workers clears an event that is set, and once
\* the termination signal is set no launcher spawns a worker.
C6_Latches ==
    [][/\ events \subseteq events'
       /\ IsSet(AbortEvent) => Len(workers') = Len(workers)]_vars

C6_Witness ==
    /\ IsSet(AbortEvent)
    /\ IsSet(CompleteEvent)
    /\ file_monitor_thread = 2
    /\ threads[<<2, "file">>].st = "finished"
    /\ threads[<<2, "log">>].st = "finished"
    /\ file_trackables # <<>>
    /\ result.op = "terminate"

\* C7: under every interleaving of the two launchers at most one worker is
\* ever spawned for a path, also for a path matched by a track and by a
\* tail pattern.
C7_OneWorkerPerPath ==
    \A v, w \in 1..Len(workers) : v # w => workers[v].path # workers[w].path

C7_Witness ==
    /\ \E w \in 1..Len(workers) : workers[w].k = "log" /\ workers[w].path = "p1"
    /\ threads[<<1, "file">>].st = "started"
    /\ ~IsSet(AbortEvent)
    /\ "p1" \in fs
    /\ file_trackables = <<Trackable("star")>>
    /\ log_trackables = <<Trackable("star")>>

\* C8: the known-files collection only grows, also when a file disappears
\* and reappears, and a worker is only spawned for a path that was not in it.
C8_KnownFilesMonotonic ==
    [][/\ known_files["known_files"] \subseteq known_files'["known_files"]
       /\ Len(workers') > Len(workers)
             => workers'[Len(workers')].path \notin known_files["known_files"]]_vars

C8_Witness ==
    /\ "p1" \in known_files["known_files"]
    /\ "p1" \in fs
    /\ file_monitor_thread = 2
    /\ threads[<<2, "file">>].st = "started"
    /\ ~IsSet(AbortEvent)
    /\ file_trackables = <<Trackable("star")>>
    /\ \E w \in 1..Len(workers) :
          workers[w].g = 1 /\ workers[w].st = "poll" /\ workers[w].stale

\* C9: with lock_callbacks at most one per-thread callback is running at any
\* time, over the workers of both launchers.
C9_CallbacksSerialized ==
    lock_callbacks
        => Cardinality({w \in 1..Len(workers) : workers[w].st = "callback"}) <= 1

C9_Witness ==
    /\ lock_callbacks
    /\ \E v, w \in 1..Len(workers) :
          /\ workers[v].st = "callback" /\ workers[v].k = "file"
          /\ workers[w].st = "deliver" /\ workers[w].k = "log"

\* without lock_callbacks two callbacks can be running at once
C9_Overlap ==
    /\ ~lock_callbacks
    /\ \E v, w \in 1..Len(workers) :
          /\ workers[v].st = "callback" /\ workers[v].k = "file"
          /\ workers[w].st = "callback" /\ workers[w].k = "log"

\* C10: once the termination signal is set no worker starts another parse and
\* a worker with a record in hand still delivers it; every started launcher
\* thread eventually finishes, and a pending terminate() or blocking run()
\* eventually returns or raises.
C10_LoopsExitAtBoundary ==
    IsSet(AbortEvent)
        => \A w \in 1..Len(workers) :
              /\ workers[w].st = "poll" => workers'[w].st \in {"poll", "done"}
              /\ workers[w].st = "deliver"
                    => workers'[w].st \in {"deliver", "callback"}
              /\ workers[w].st = "done" => workers'[w].st = "done"

C10_ShutdownCompletes ==
    /\ [][C10_LoopsExitAtBoundary]_vars
    /\ IsSet(AbortEvent) ~> (\A t \in Gens \X Kinds : threads[t].st # "started")
    /\ (pc # "idle" /\ (call.op = "terminate" \/ IsSet(AbortEvent))) ~> (pc = "idle")

C10_Witness ==
    /\ pc = "join_file"
    /\ IsSet(AbortEvent)
    /\ ThreadOf("file").st = "started"
    /\ \E v, w \in 1..Len(workers) :
          /\ workers[v].st = "callback"
          /\ workers[w].st = "deliver"

\* C11: a session can be given terminate_all_on_fail, and in such a session
\* the termination signal is set once a worker has failed.
C11_FailStopsAll ==
    "terminate_all_on_fail" \in kwargs
        => /\ pc # "unconstructed"
           /\ (\E w \in 1..Len(workers) : workers[w].failed) => IsSet(AbortEvent)

\* the other half of C11: without terminate_all_on_fail the step in which a
\* worker fails sets no signal and changes no other worker.
C11_FailureLeavesSiblings ==
    [][\A w \in 1..Len(workers) :
          ("terminate_all_on_fail" \notin kwargs
             /\ ~workers[w].failed /\ workers'[w].failed)
          => /\ events' = events
             /\ \A v \in 1..Len(workers) : v # w => workers'[v] = workers[v]]_vars

\* C12: in a session given terminate_all_on_fail a terminate() that joined
\* both launchers after a callback raised raises; and a terminate() that
\* joined a launcher thread that failed raises.
C12_FailureRaised ==
    /\ "terminate_all_on_fail" \in kwargs => result.op # "__init__"
    /\ (pc = "idle" /\ result.op = "terminate" /\ result.joined = Kinds
          /\ \E k \in Kinds : ThreadOf(k).failed)
          => result.out = "raised"

\* C13: a session can be given a timeout (after which the supervisor sets
\* the termination signal by itself).
C13_TimeoutConfigured ==
    "timeout" \in kwargs => ~ConstructorRaises

\* C14: track() or tail() with a pattern that is not a str, alone or in a
\* list, raises AssertionError from the call; with a str pattern it raises
\* nothing; no worker starts in the call.
C14_NonStrPatternRefused ==
    [][\A g \in Globs :
          (Track(g) \/ TailCall(g))
          => /\ result'.out = IF g \in {NonStr, NonIter}
                               THEN "AssertionError" ELSE "ok"
             /\ workers' = workers]_vars

\* C15: exclude() with a pattern that is not a str raises what track() and
\* tail() raise for one, AssertionError, and no worker starts in the call.
C15_ExcludeSameError ==
    [][(Exclude(NonStr) \/ Exclude(NonIter))
          => /\ result'.out = "AssertionError"
             /\ workers' = workers]_vars

\* C16: track() with a custom parser that raises on the test input, does not
\* return two objects or is not decorated raises AssertionError and
\* registers nothing.
C16_TrackChecksParser ==
    [][\A g \in Globs, p \in Parsers :
          (TrackWith(g, {p}) /\ (p.raises \/ p.len # 2 \/ ~p.marked))
          => /\ result'.out = "AssertionError"
             /\ file_trackables' = file_trackables]_vars

\* C17: tail() with a custom parser that raises on the test string, returns
\* other than two objects or is not decorated raises AssertionError and
\* registers nothing; a decorated parser that returns two objects passes,
\* and tail() given nothing else but a str pattern registers it.
C17_TailChecksParser ==
    [][(result' # result \/ log_trackables' # log_trackables) =>
       \A g \in Globs, p \in Parsers, tv \in 0..1, lab \in 0..1 :
          TailWith(g, {p}, tv, lab)
          => IF p.raises \/ p.len # 2 \/ ~p.marked
             THEN /\ result'.out = "AssertionError"
                  /\ result'.msg \in {ParserFailed, ParserTwo, ParserDecorated}
                  /\ log_trackables' = log_trackables
             ELSE /\ result'.msg \notin {ParserFailed, ParserTwo, ParserDecorated}
                  /\ (tv = 0 /\ lab = 0 /\ g = "star" /\ ~HasNonStr(log_trackables))
                        => /\ result'.out = "ok"
                           /\ log_trackables' =
                                 Append(log_trackables, TrackableWith(g, {p}))]_vars

C17_Witness ==
    /\ result.op = "tail"
    /\ result.msg = ParserDecorated
    /\ log_trackables = <<>>
    /\ file_monitor_thread # 0

\* C18: tail() with a custom parser and tracked values, or with a custom
\* parser and labels, raises AssertionError and registers no tail trackable.
C18_ParserAlone ==
    [][(result' # result \/ log_trackables' # log_trackables) =>
       \A g \in Globs, p \in Parsers, tv \in 0..1, lab \in 0..1 :
          (TailWith(g, {p}, tv, lab) /\ (tv > 0 \/ lab > 0))
          => /\ result'.out = "AssertionError"
             /\ log_trackables' = log_trackables]_vars

C18_Witness ==
    /\ result.op = "tail"
    /\ result.msg = BothLabels
    /\ log_trackables = <<>>
    /\ file_monitor_thread # 0

ExcludedMatches ==
    UNION {Matches(excluded_patterns[i]) : i \in 1..Len(excluded_patterns)}

\* C20: discovery neither spawns a worker for a path that an excluded pattern
\* matches nor adds such a path to the known-files collection, in whatever
\* order the patterns were registered.
C20_ExcludedNeverSpawned ==
    [][/\ Len(workers') > Len(workers)
             => workers'[Len(workers')].path \notin ExcludedMatches
       /\ (known_files'["known_files"] \ known_files["known_files"])
             \cap ExcludedMatches = {}]_vars

C20_Witness ==
    /\ excluded_patterns = <<"p1">>
    /\ file_trackables = <<Trackable("star")>>
    /\ fs = {"p1"}
    /\ known_files["known_files"] = {}
    /\ threads[<<1, "file">>].st = "started"
    /\ ~IsSet(AbortEvent)
    /\ ~ENABLED LauncherLoop(1, "file")

\* the workers of a static full-file trackable
StaticWorkers == {w \in 1..Len(workers) : workers[w].k = "file" /\ Bound(w).static}

Running == \E t \in Gens \X Kinds : threads[t].st = "started"

IsPrefix(s, t) == Len(s) <= Len(t) /\ SubSeq(t, 1, Len(s)) = s

\* C23 as stated: while a launcher runs, no call changes the trackables or
\* the excluded patterns.
C23_ListsFixedAfterRun ==
    [][Running => lists' = lists]_vars

\* C23: track(), tail() and exclude() are accepted after run() as before it
\* and append to the lists the launchers were given; an entry once in a list
\* is never changed or removed, and a launcher spawns a worker for a path
\* that a pattern of its list, as the list then is, matches.
C23_ListsAppendOnly ==
    [][/\ IsPrefix(file_trackables, file_trackables')
       /\ IsPrefix(log_trackables, log_trackables')
       /\ IsPrefix(excluded_patterns, excluded_patterns')
       /\ (Running /\ Track("star") /\ ~HasNonStr(file_trackables))
             => /\ result'.out = "ok"
                /\ file_trackables' = Append(file_trackables, Trackable("star"))
       /\ Len(workers') > Len(workers)
             => LET n == workers'[Len(workers')]
                IN  /\ n.trackable \in 1..Len(Trackables(n.k))
                    /\ n.path \in Matches(Trackables(n.k)[n.trackable].glob_expr)]_vars

\* the only track() was the last call, made after run(), and its file has a
\* worker
C23_Witness ==
    /\ result = Done("track", "ok")
    /\ threads[<<1, "file">>].st = "started"
    /\ file_trackables = <<Trackable("star")>>
    /\ \E w \in 1..Len(workers) : workers[w].k = "file" /\ workers[w].st = "callback"

\* C24: a launcher thread that has finished, however its discovery loop
\* ended, has joined its workers: none of them is still running.
C24_WorkersJoinedBeforeFinish ==
    \A g \in Gens, k \in Kinds :
        threads[<<g, k>>].st = "finished"
            => \A w \in WorkersOf(g, k) : workers[w].st = "done"

\* the trackables of launcher k, as its list is now, that match path p
Matching(k, p) ==
    {i \in 1..Len(Trackables(k)) : p \in Matches(Trackables(k)[i].glob_expr)}

\* C25: the trackables are in their lists in declaration order (the order of
\* the calls, then the order of the patterns of one call); a worker is bound
\* to the first trackable of its launcher's list that matches its path, and
\* no path has a second worker.
C25_FirstMatchWins ==
    /\ [](\A w \in 1..Len(workers) :
            /\ workers[w].trackable \in Matching(workers[w].k, workers[w].path)
            /\ \A j \in Matching(workers[w].k, workers[w].path) :
                  workers[w].trackable <= j
            /\ \A v \in 1..Len(workers) :
                  v # w => workers[v].path # workers[w].path)
    /\ [][\A gs \in GlobLists :
            /\ TrackAll(gs)
                  => file_trackables' = file_trackables
                                          \o <<Trackable(gs[1]), Trackable(gs[2])>>
            /\ TailAll(gs)
                  => log_trackables' = log_trackables
                                          \o <<Trackable(gs[1]), Trackable(gs[2])>>]_vars

C25_Witness ==
    /\ file_trackables = <<Trackable("p1"), Trackable("star")>>
    /\ result = Done("track", "ok")
    /\ log_trackables = <<>>
    /\ \E w \in 1..Len(workers) :
          /\ workers[w].path = "p1"
          /\ workers[w].trackable = 1
          /\ workers[w].st = "poll"
          /\ ~workers[w].stale
    /\ threads[<<1, "file">>].st = "started"
    /\ ~IsSet(AbortEvent)

\* C26: the callback lock is held only by a worker that is inside the
\* per-thread callback, never by one that sleeps, stats or reads its file or
\* waits to deliver, and never by a launcher: it is taken in the step that
\* enters the callback and given back in the step that leaves it.
C26_LockOnlyAroundCallback ==
    /\ [](\A l \in DOMAIN locks :
            locks[l] # 0 => /\ locks[l] \in 1..Len(workers)
                            /\ workers[locks[l]].st = "callback"
                            /\ FileThreadLock(workers[locks[l]].k) = l)
    /\ [][\A l \in DOMAIN locks, w \in 1..Len(workers) :
            /\ (locks[l] # w /\ locks'[l] = w)
                  => workers[w].st = "deliver" /\ workers'[w].st = "callback"
            /\ (locks[l] = w /\ workers'[w].st # "callback") => locks'[l] = 0]_vars

\* a worker that has delivered sleeps between polls while the other worker
\* holds the lock
C26_Witness ==
    /\ Len(workers) = 2
    /\ locks["mutex"] = 2
    /\ workers[2].st = "callback"
    /\ workers[1].st = "poll"
    /\ ~workers[1].stale
    /\ ~IsSet(AbortEvent)

HasNonStrPattern(patterns) == \E i \in 1..Len(patterns) : patterns[i] = NonStr

\* C29 as stated: after track(), tail() or exclude() has raised for a pattern
\* that is not a str, the rejected entry is in the list.
C29_RejectedStays ==
    /\ (result.op = "track" /\ result.out # "ok") => HasNonStr(file_trackables)
    /\ (result.op = "tail" /\ result.out # "ok") => HasNonStr(log_trackables)
    /\ (result.op = "exclude" /\ result.out # "ok")
          => HasNonStrPattern(excluded_patterns)

\* C29: a pattern that is not a str and comes in a list is registered and
\* then refused; it stays in its list, every later call of that kind raises
\* whatever it is given, and a launcher started with it in its list raises
\* on expanding it.  A pattern that is neither a str nor iterable, given
\* alone, raises TypeError and nothing is registered.
C29_RegisteredBeforeChecked ==
    [][/\ Track(NonStr)
             => /\ result'.out = "AssertionError"
                /\ file_trackables' = Append(file_trackables, Trackable(NonStr))
       /\ TailCall(NonStr)
             => /\ result'.out = "AssertionError"
                /\ log_trackables' = Append(log_trackables, Trackable(NonStr))
       /\ Exclude(NonStr)
             => /\ result'.out = "TypeError"
                /\ excluded_patterns' = Append(excluded_patterns, NonStr)
       /\ \A g \in Globs :
             /\ (Track(g) /\ HasNonStr(file_trackables)) => result'.out # "ok"
             /\ (TailCall(g) /\ HasNonStr(log_trackables)) => result'.out # "ok"
             /\ (Exclude(g) /\ HasNonStrPattern(excluded_patterns))
                   => result'.out # "ok"
       /\ (Track(NonIter) \/ TailCall(NonIter) \/ Exclude(NonIter))
             => /\ result'.out = "TypeError"
                /\ lists' = lists
       /\ \A g \in Gens, k \in Kinds :
             (LauncherLoop(g, k)
                /\ (HasNonStr(Trackables(k)) \/ HasNonStrPattern(excluded_patterns)))
             => threads'[<<g, k>>].failed]_vars

\* the launcher started with the refused trackable in its list and raised,
\* and a later track() of a str pattern was refused
C29_Witness ==
    /\ file_trackables = <<Trackable(NonStr), Trackable("star")>>
    /\ result = Refused("track", GlobType)
    /\ threads[<<1, "file">>].failed

\* C30: terminate() on a monitor that was never entered sets the termination
\* and the completion signal and then raises AssertionError; the signals stay
\* set, so a launcher started later finds the termination signal set and
\* spawns no worker.
C30_FailedTerminateSetsSignals ==
    [][/\ (Terminate /\ NotEntered)
             => /\ AbortEvent \in events'
                /\ CompleteEvent \in events'
                /\ result' = Refused("terminate", ContextManager)
                /\ threads' = threads
       /\ (result = Refused("terminate", ContextManager) /\ NotEntered)
             => AbortEvent \in events
       /\ IsSet(AbortEvent)
             => /\ AbortEvent \in events'
                /\ \A g \in Gens, k \in Kinds : ~LauncherLoop(g, k)]_vars

C30_Witness ==
    /\ result = Refused("terminate", ContextManager)
    /\ NotEntered
    /\ IsSet(AbortEvent)
    /\ IsSet(CompleteEvent)
    /\ ~manual_abort
    /\ file_trackables # <<>>

\* C22: while the file is only appended to, what a tail worker has read
\* over its lifetime is the file from the anchor of its first poll to its
\* offset, each line once and in order; the first read yields the final
\* line the file then had and nothing else, every later read exactly the
\* lines appended since the read before, none of them delivered before.
C22_ReadsCoverAppended ==
    /\ []((tail.truncations = 0 /\ tail.read_bytes # NoOffset)
            => /\ tail.delivered = SubSeq(tail.file, tail.anchor + 1, tail.read_bytes)
               /\ \A i, j \in 1..Len(tail.delivered) :
                     i # j => tail.delivered[i] # tail.delivered[j]
               /\ ~tail.stale => tail.read_bytes = Len(tail.file))
    /\ [][(TailRead /\ tail.truncations = 0)
            => /\ tail.read_bytes = NoOffset
                     => /\ tail.file # <<>>
                              => tail'.lines = <<tail.file[Len(tail.file)]>>
                        /\ tail'.anchor = Len(tail.file) - Len(tail'.lines)
               /\ tail.read_bytes # NoOffset
                     => /\ tail'.lines
                              = SubSeq(tail.file, tail.read_bytes + 1, Len(tail.file))
                        /\ \A i \in 1..Len(tail'.lines), j \in 1..Len(tail.delivered) :
                              tail'.lines[i] # tail.delivered[j]
               /\ tail'.read_bytes = Len(tail.file)]_vars

\* the second read returned the two lines appended after the first
C22_Witness ==
    /\ tail.truncations = 0
    /\ tail.anchor = 1
    /\ tail.read_bytes = 4
    /\ tail.lines = <<<<0, 3>>, <<0, 4>>>>
    /\ tail.delivered = <<<<0, 2>>, <<0, 3>>, <<0, 4>>>>
    /\ ~tail.stale

\* C27: a poll that finds the file shorter than the offset resets the offset
\* to zero and delivers nothing, and the worker polls again; the read at
\* offset zero yields the whole file as it then is.
C27_ShrinkResets ==
    [][TailRead
         => /\ (tail.read_bytes # NoOffset /\ Len(tail.file) < tail.read_bytes)
                  => /\ tail'.read_bytes = 0
                     /\ tail'.lines = <<>>
                     /\ tail'.stale
            /\ tail.read_bytes = 0
                  => /\ tail'.lines = tail.file
                     /\ tail'.read_bytes = Len(tail.file)]_vars

\* after a truncation the worker has read the new content from its start
C27_Witness ==
    /\ tail.truncations = 1
    /\ tail.file = <<<<1, 1>>>>
    /\ tail.lines = tail.file
    /\ tail.read_bytes = 1
    /\ tail.delivered = <<<<0, 2>>, <<0, 3>>, <<1, 1>>>>
    /\ ~tail.stale

\* C28: the extraction raises ValueError exactly for a match with no or one
\* capture group and no label and for a match with three or more capture
\* groups; otherwise it succeeds: with two groups the first is the label and
\* the second the value, a label given winning over the captured one, and
\* with no or one group the label is the one given and the value the match
\* or the group.
C28_LabelValueExtraction ==
    extract.out # "none"
        => LET n == extract.regex_result.groups
               items == extract.regex_result.items
           IN  /\ (extract.out = "ValueError")
                     = ((n <= 1 /\ extract.label = "None") \/ n >= 3)
               /\ extract.out \in {"ok", "ValueError"}
               /\ extract.out = "ok"
                     => /\ extract.value = IF n = 2 THEN items[2] ELSE items[1]
                        /\ extract.key = IF extract.label # "None"
                                         THEN extract.label ELSE items[1]

C28_Witness ==
    /\ extract.out = "ok"
    /\ extract.regex_result = RegexResult(2, <<"a", "b">>)
    /\ extract.label = "label"
    /\ extract.key = "label"
    /\ extract.value = "b"

\* the entries of the monitor's own list of kind k that match path p
Registering(k, p) ==
    LET list == IF k = "file" THEN file_trackables ELSE log_trackables
    IN  {i \in 1..Len(list) : p \in Matches(list[i].glob_expr)}

\* the paths launcher k has still to pick up, by the monitor's own lists
Outstanding(k) ==
    {p \in fs : /\ Registering(k, p) # {}
                /\ p \notin ExcludedMatches
                /\ p \notin known_files["known_files"]}

\* C31: every pattern registered to track, tail or exclude between __enter__
\* and run() is seen by the launchers created at entry: the registration
\* grows the monitor's list at its end and leaves the launcher threads as
\* they are; a started launcher picks up every path the monitor's lists
\* call for, binds it to the first entry of the monitor's list that matches
\* it, never picks up a path the monitor's excluded patterns match, and
\* marks it in the monitor's known-files list.
C31_RegisteredAfterEntrySeen ==
    /\ [](\A g \in Gens, k \in Kinds :
            (threads[<<g, k>>].st = "started" /\ ~IsSet(AbortEvent)
                /\ Outstanding(k) # {})
                => ENABLED LauncherLoop(g, k))
    /\ [](\A w \in 1..Len(workers) :
            /\ workers[w].trackable \in Registering(workers[w].k, workers[w].path)
            /\ \A j \in Registering(workers[w].k, workers[w].path) :
                  workers[w].trackable <= j
            /\ workers[w].path \in known_files["known_files"])
    /\ [][/\ Len(workers') > Len(workers)
                => workers'[Len(workers')].path \notin ExcludedMatches
          /\ lists' # lists
                => /\ Prepared
                   /\ IsPrefix(file_trackables, file_trackables')
                   /\ IsPrefix(log_trackables, log_trackables')
                   /\ IsPrefix(excluded_patterns, excluded_patterns')
                   /\ threads' = threads
                   /\ refs' = refs]_vars

\* after entry the caller tracked every file and excluded one; the file
\* launcher has picked up the other and leaves the excluded one alone
C31_Witness ==
    /\ file_trackables = <<Trackable("star")>>
    /\ excluded_patterns = <<"p1">>
    /\ fs = Paths
    /\ threads[<<1, "file">>].st = "started"
    /\ ~IsSet(AbortEvent)
    /\ \E w \in 1..Len(workers) :
          workers[w].k = "file" /\ workers[w].path = "p2" /\ workers[w].trackable = 1
    /\ known_files["known_files"] = {"p2"}

\* both launcher threads of the monitor have finished
Joinable == \A k \in Kinds : ThreadOf(k).st = "finished"

\* the last call that ended was a terminate() that joined both launchers
Terminated == result.op = "terminate" /\ result.out \in {"ok", "raised"}

\* C32: a terminate() called again after a terminate() that joined both
\* launchers does not block at either join, finds and leaves both signals
\* set, and ends as the first did: it returns normally, or re-raises the
\* exception of the same launcher thread.
C32_TerminateRepeatable ==
    /\ []((Terminated /\ call.op = "terminate" /\ Joinable)
            => /\ IsSet(AbortEvent) /\ IsSet(CompleteEvent)
               /\ pc = "join_file" => ENABLED JoinFile
               /\ pc = "join_log" => ENABLED JoinLog)
    /\ [][(Terminated /\ Joinable)
            => /\ Terminate => /\ pc' = "join_file"
                               /\ events' = events
                               /\ threads' = threads
               /\ (call.op = "terminate" /\ JoinFile) => pc' = "join_log"
               /\ (call.op = "terminate" /\ JoinLog) => result' = result]_vars

\* the second terminate() is at its second join after the first re-raised
\* the failure of the file launcher
C32_Witness ==
    /\ Terminated
    /\ result.out = "raised"
    /\ result.exc[2] = "file"
    /\ call.op = "terminate"
    /\ pc = "join_log"
    /\ Joinable

\* a worker of the launchers that terminate() joins has failed
FailedWorker ==
    \E w \in 1..Len(workers) :
        workers[w].failed /\ workers[w].g = CurrentThread(workers[w].k)

BadTail(custom_parser, tracked_values, labels) ==
    \/ \E p \in custom_parser : p.raises \/ p.len # 2 \/ ~p.marked
    \/ custom_parser # {} /\ (tracked_values > 0 \/ labels > 0)
    \/ labels > 0 /\ labels # tracked_values

\* the messages of the checks tail() makes before it registers
BeforeRegistration ==
    {ParserFailed, ParserTwo, ParserDecorated, BothValues, BothLabels, LabelNumber}

\* C34: a tail() whose parser validation, tracked-values/labels conflict
\* check or label-count check fails raises AssertionError and leaves the
\* list of log trackables exactly as it was before the call; and a tail()
\* that raised with the message of one of these checks has changed no list.
C34_TailValidatesFirst ==
    [][/\ \A g \in Globs, cp \in CustomParsers, tv \in 0..1, lab \in 0..1 :
             (TailWith(g, cp, tv, lab) /\ BadTail(cp, tv, lab))
                 => /\ log_trackables' = log_trackables
                    /\ result'.op = "tail"
                    /\ result'.out = "AssertionError"
                    /\ result'.msg \in BeforeRegistration
       /\ (result' # result /\ result'.op = "tail"
              /\ result'.msg \in BeforeRegistration)
             => lists' = lists]_vars

\* a tail() with one label and no tracked value was refused after an
\* earlier one with a decorated parser had registered its trackable
C34_Witness ==
    /\ result = Refused("tail", LabelNumber)
    /\ log_trackables = <<TrackableWith("star", {Parser(FALSE, 2, TRUE)})>>
    /\ ~NotEntered

====
